---- MODULE Spec2Model ----
(***************************************************************************)
(* Model of the demo HTTP server in app/main.go: the three request         *)
(* handlers (healthHandler, userHandler, productsHandler), the identity    *)
(* resolver tailscaleWhois, and the collaborators they call (the products  *)
(* table behind database/sql, the Tailscale local client, net/http's       *)
(* ResponseWriter and encoding/json).                                      *)
(*                                                                         *)
(* Strings are sequences of one-character strings, so that formatting,     *)
(* concatenation and parsing are computed and not assumed.  JSON values    *)
(* are records tagged by t: null, bool, num, str, arr, obj (an obj is the  *)
(* sequence of its <<key, value>> members in emission order).              *)
(***************************************************************************)
EXTENDS Integers, Sequences, FiniteSets, TLC

VARIABLES
    tsnetMode,   \* Server.tsnetMode
    table,       \* the products table: created_at of the row with id i
    req,         \* the request handled last, with the dependency results it met
    resp,        \* the response written for it (the ResponseWriter at return)
    calls,       \* the dependency calls the handler issued, in order
    prev,        \* the exchange before it, as a client that repeats a GET holds it
    authKey,     \* Config.TailscaleAuthKey
    pc,          \* where the main goroutine stands
    client,      \* Server.client
    srv,         \* the http.Server: its listener, its Serve goroutine, inShutdown
    quit,        \* the quit channel and whether signal.Notify has run
    inflight,    \* the requests being handled
    timer,       \* seconds since Shutdown was called
    hist,        \* what has happened so far (attempts, failures, aborted requests)
    widgets,     \* what the three widgets of the page show
    slots,       \* the handler goroutines, each at its position in its handler
    schema       \* the database as the migrations see it: version and products

\* the process around the handlers
lifeVars == <<authKey, pc, client, srv, quit, inflight, timer, hist>>

\* the page in the browser, the concurrent handlers, the migrated database
restVars == <<widgets, slots, schema>>

vars == <<tsnetMode, table, req, resp, calls, prev, lifeVars, restVars>>

----------------------------------------------------------------------------
(* Bounds *)

MaxNameLen == 1      \* longest login / display name drawn
MaxMsgLen == 2       \* longest dependency error message drawn
MaxTime == 2         \* created_at values are 1..MaxTime
SmallRows == 2       \* small tables hold 0..SmallRows rows
OverLimit == 1       \* large tables hold up to QueryLimit + OverLimit rows
MaxFaultRow == 2     \* a scan / cursor fault strikes at row 1..MaxFaultRow
MaxRequests == 2     \* connections accepted during one run of the process
MaxHandlers == 2     \* handler goroutines running at the same time

(* Program constants *)

QueryLimit == 100
StatusOK == 200
StatusInternalServerError == 500
GracePeriod == 10    \* seconds Shutdown waits for requests in flight
PingTimeout == 2     \* seconds healthHandler gives the database ping
QueryTimeout == 5    \* seconds productsHandler gives the query

----------------------------------------------------------------------------
(* Strings *)

Quote == "\""
Backslash == "\\"
Newline == "\n"

RECURSIVE SeqsUpTo(_, _)
SeqsUpTo(S, n) ==
    IF n = 0 THEN {<<>>}
    ELSE LET shorter == SeqsUpTo(S, n - 1)
         IN  shorter \cup {Append(s, c) : s \in shorter, c \in S}

HasPrefixAt(s, p, i) ==
    /\ i + Len(p) - 1 <= Len(s)
    /\ \A k \in 1..Len(p) : s[i + k - 1] = p[k]

Contains(s, sub) == \E i \in 1..(Len(s) + 1) : HasPrefixAt(s, sub, i)

\* Bytes outside ASCII are named by their hex value.
LeadBytes == {"0xC2", "0xC3"}          \* first byte of a two-byte character
ContBytes == {"0x83", "0xA9"}          \* continuation bytes
ReplacementChar == <<"0xEF", "0xBF", "0xBD">>

RECURSIVE ToValidUTF8(_, _)
ToValidUTF8(s, i) ==
    IF i > Len(s) THEN <<>>
    ELSE IF s[i] \in LeadBytes
         THEN IF i < Len(s) /\ s[i + 1] \in ContBytes
              THEN <<s[i], s[i + 1]>> \o ToValidUTF8(s, i + 2)
              ELSE ReplacementChar \o ToValidUTF8(s, i + 1)
         ELSE IF s[i] \in ContBytes
              THEN ReplacementChar \o ToValidUTF8(s, i + 1)
              ELSE <<s[i]>> \o ToValidUTF8(s, i + 1)

\* string(b) for a byte b: the UTF-8 encoding of the code point b
RuneString(b) ==
    IF b = "0xC3" THEN <<"0xC3", "0x83">>
    ELSE IF b = "0xC2" THEN <<"0xC3", "0x82">>
    ELSE IF b = "0xA9" THEN <<"0xC2", "0xA9">>
    ELSE IF b = "0x83" THEN <<"0xC2", "0x83">>
    ELSE <<b>>

StrOk == <<"o", "k">>
StrConnected == <<"c", "o", "n", "n", "e", "c", "t", "e", "d">>
StrDisconnected == <<"d", "i", "s", "c", "o", "n", "n", "e", "c", "t", "e", "d">>
StrUnknown == <<"u", "n", "k", "n", "o", "w", "n">>
StrRunning == <<"R", "u", "n", "n", "i", "n", "g">>
StrStopped == <<"S", "t", "o", "p", "p", "e", "d">>
StrNeedsLogin == <<"N", "e", "e", "d", "s", "L", "o", "g", "i", "n">>
TailscaleNotAvailable ==
    <<"T", "a", "i", "l", "s", "c", "a", "l", "e", " ", "n", "o", "t", " ",
      "a", "v", "a", "i", "l", "a", "b", "l", "e">>

----------------------------------------------------------------------------
(* JSON values, as encoding/json emits them *)

JNull == [t |-> "null"]
JBool(b) == [t |-> "bool", v |-> b]
JNum(n) == [t |-> "num", v |-> n]
\* a Go string as the encoder emits it: invalid UTF-8 becomes U+FFFD
JStr(s) == [t |-> "str", v |-> ToValidUTF8(s, 1)]
JArr(elems) == [t |-> "arr", v |-> elems]
JObj(members) == [t |-> "obj", v |-> members]
JInvalid == [t |-> "invalid"]

Keys(obj) == [i \in 1..Len(obj.v) |-> obj.v[i][1]]
HasKey(obj, k) == \E i \in 1..Len(obj.v) : obj.v[i][1] = k
Member(obj, k) == obj.v[CHOOSE i \in 1..Len(obj.v) : obj.v[i][1] = k][2]

----------------------------------------------------------------------------
(* Reading a body back, as a JSON decoder does (objects of string members) *)

Whitespace == {" ", Newline, "\t", "\r"}
\* the characters that may follow a backslash inside a JSON string, and what
\* each escape stands for
EscapeChars == {Quote, Backslash, "/", "n", "t", "r"}
Unescape(c) ==
    IF c = "n" THEN Newline
    ELSE IF c = "t" THEN "\t"
    ELSE IF c = "r" THEN "\r"
    ELSE c

ParseFail == [ok |-> FALSE, val |-> <<>>, next |-> 0]
ParseOk(val, next) == [ok |-> TRUE, val |-> val, next |-> next]

RECURSIVE SkipWs(_, _)
SkipWs(s, i) ==
    IF i <= Len(s) /\ s[i] \in Whitespace THEN SkipWs(s, i + 1) ELSE i

CharAt(s, i) == IF i >= 1 /\ i <= Len(s) THEN s[i] ELSE "EOF"

\* the characters of a string from position i up to its closing quote
RECURSIVE StrBody(_, _, _)
StrBody(s, i, acc) ==
    IF i > Len(s) THEN ParseFail
    ELSE IF s[i] = Quote THEN ParseOk(acc, i + 1)
    ELSE IF s[i] = Backslash
         THEN IF CharAt(s, i + 1) \in EscapeChars
              THEN StrBody(s, i + 2, Append(acc, Unescape(s[i + 1])))
              ELSE ParseFail
    ELSE IF s[i] \in {Newline, "\t", "\r"} THEN ParseFail
    ELSE StrBody(s, i + 1, Append(acc, s[i]))

ParseStr(s, i) ==
    IF CharAt(s, i) = Quote THEN StrBody(s, i + 1, <<>>) ELSE ParseFail

\* member names are plain strings in a JSON value of this model
KeyName(chars) ==
    IF chars = <<"e", "r", "r", "o", "r">> THEN "error" ELSE "(other)"

\* members from position i, where a member name is expected
RECURSIVE ParseMembers(_, _, _)
ParseMembers(s, i, acc) ==
    LET key == ParseStr(s, i)
        colon == SkipWs(s, key.next)
        val == ParseStr(s, SkipWs(s, colon + 1))
        after == SkipWs(s, val.next)
        members == Append(acc, <<KeyName(key.val), [t |-> "str", v |-> val.val]>>)
    IN  IF ~key.ok \/ CharAt(s, colon) # ":" THEN ParseFail
        ELSE IF ~val.ok THEN ParseFail
        ELSE IF CharAt(s, after) = "," THEN ParseMembers(s, SkipWs(s, after + 1), members)
        ELSE IF CharAt(s, after) = "}" THEN ParseOk(members, after + 1)
        ELSE ParseFail

ParseJson(s) ==
    LET open == SkipWs(s, 1)
        first == SkipWs(s, open + 1)
        members ==
            IF CharAt(s, first) = "}" THEN ParseOk(<<>>, first + 1)
            ELSE ParseMembers(s, first, <<>>)
    IN  IF CharAt(s, open) # "{" THEN JInvalid
        ELSE IF ~members.ok THEN JInvalid
        ELSE IF SkipWs(s, members.next) <= Len(s) THEN JInvalid
        ELSE JObj(members.val)

----------------------------------------------------------------------------
(* net/http ResponseWriter *)

NoBody == [enc |-> "none"]
JsonBody(value) == [enc |-> "json", value |-> value]
TextBody(chars) == [enc |-> "text", chars |-> chars]

\* the writer a handler receives: nothing set, nothing sent
NewWriter == [header |-> "", code |-> 0, sentType |-> "", body |-> NoBody]

HeaderSet(w, contentType) == [w EXCEPT !.header = contentType]

\* the status line and the headers go out once, with the headers of that moment
WriteHeader(w, code) ==
    IF w.code # 0 THEN w
    ELSE [w EXCEPT !.code = code, !.sentType = w.header]

\* json.NewEncoder(w).Encode(v): the first Write sends 200 if nothing was sent
Encode(w, value) ==
    [WriteHeader(w, StatusOK) EXCEPT !.body = JsonBody(value)]

\* http.Error(w, text, code): replaces the Content-Type, then prints the text
HttpError(w, text, code) ==
    [WriteHeader(HeaderSet(w, "text/plain; charset=utf-8"), code)
        EXCEPT !.body = TextBody(Append(text, Newline))]

\* the JSON value a client decodes from the body of a response
BodyJson(w) ==
    IF w.body.enc = "json" THEN w.body.value
    ELSE IF w.body.enc = "text" THEN ParseJson(w.body.chars)
    ELSE JInvalid

\* the elements of the array a client decodes (a null body decodes to no rows)
BodyRows(w) ==
    IF BodyJson(w).t = "arr" THEN BodyJson(w).v ELSE <<>>

----------------------------------------------------------------------------
(* Tailscale local client results *)

StatusErr == [err |-> TRUE, nil |-> TRUE, BackendState |-> <<>>]
StatusNil == [err |-> FALSE, nil |-> TRUE, BackendState |-> <<>>]
StatusOf(state) == [err |-> FALSE, nil |-> FALSE, BackendState |-> state]
BackendStates == {StrRunning, StrStopped, StrNeedsLogin}
StatusResults == {StatusErr, StatusNil} \cup {StatusOf(s) : s \in BackendStates}

----------------------------------------------------------------------------
(* healthHandler *)

\* the struct without its json tags: the members take the field names
HealthResponse_untagged(status, database, tailscale) ==
    JObj(<< <<"Status", JStr(status)>>,
            <<"Database", JStr(database)>>,
            <<"Tailscale", JStr(tailscale)>> >>)

HealthResponse(status, database, tailscale) ==
    JObj(<< <<"status", JStr(status)>>,
            <<"database", JStr(database)>>,
            <<"tailscale", JStr(tailscale)>> >>)

\* a handler that reports the backend state as it comes, Running included
healthHandler_rawState(pingOk, status) ==
    LET w0 == HeaderSet(NewWriter, "application/json")
        database == IF pingOk THEN StrConnected ELSE StrDisconnected
        c2 == <<"db.PingContext", "client.Status">>
        tailscale ==
            IF ~status.err /\ ~status.nil THEN status.BackendState
            ELSE StrUnknown
        w1 == WriteHeader(w0, StatusOK)
    IN  [w |-> Encode(w1, HealthResponse(StrOk, database, tailscale)),
         calls |-> c2]

\* a handler that gives up with 503 when the ping fails
healthHandler_failFast(pingOk, status) ==
    LET w0 == HeaderSet(NewWriter, "application/json")
        c1 == <<"db.PingContext">>
        c2 == Append(c1, "client.Status")
        tailscale ==
            IF ~status.err /\ ~status.nil
            THEN IF status.BackendState = StrRunning
                 THEN StrConnected
                 ELSE status.BackendState
            ELSE StrUnknown
    IN  IF ~pingOk
        THEN [w |-> Encode(WriteHeader(w0, 503),
                           HealthResponse(StrOk, StrDisconnected, StrUnknown)),
              calls |-> c1]
        ELSE [w |-> Encode(WriteHeader(w0, StatusOK),
                           HealthResponse(StrOk, StrConnected, tailscale)),
              calls |-> c2]

healthHandler(pingOk, status) ==
    LET w0 == HeaderSet(NewWriter, "application/json")
        database == IF pingOk THEN StrConnected ELSE StrDisconnected
        c1 == <<"db.PingContext">>
        c2 == Append(c1, "client.Status")
        tailscale ==
            IF ~status.err /\ ~status.nil
            THEN IF status.BackendState = StrRunning
                 THEN StrConnected
                 ELSE status.BackendState
            ELSE StrUnknown
        w1 == WriteHeader(w0, StatusOK)
    IN  [w |-> Encode(w1, HealthResponse(StrOk, database, tailscale)),
         calls |-> c2]

----------------------------------------------------------------------------
(* tailscaleWhois and userHandler *)

\* the characters names are made of: an ASCII letter and a two-byte letter
NameChars == {<<"a">>, <<"0xC3", "0xA9">>}
\* header values arrive ASCII-only from the reverse proxy
HeaderChars == {<<"a">>, <<"b">>}

RECURSIVE Words(_, _)
Words(chars, n) ==
    IF n = 0 THEN {<<>>}
    ELSE LET shorter == Words(chars, n - 1)
         IN  shorter \cup {w \o c : w \in shorter, c \in chars}

Names == Words(NameChars, MaxNameLen)
HeaderValues == Words(HeaderChars, MaxNameLen)

\* what client.WhoIs returns: an error, or a response with a node (tagged or
\* not) and a user profile (possibly nil, possibly with an empty login name)
WhoIsErr ==
    [err |-> TRUE, tagged |-> FALSE, hasProfile |-> FALSE,
     LoginName |-> <<>>, DisplayName |-> <<>>]
WhoIsResults ==
    {WhoIsErr}
    \cup [err : {FALSE}, tagged : BOOLEAN, hasProfile : {FALSE},
          LoginName : {<<>>}, DisplayName : {<<>>}]
    \cup [err : {FALSE}, tagged : BOOLEAN, hasProfile : {TRUE},
          LoginName : Names, DisplayName : Names]

WhoIsData(login, display) == [LoginName |-> login, DisplayName |-> display]

ErrTsnet == "failed to identify user via tsnet"
ErrNotViaTailscale == "not accessed via Tailscale"
ErrTagged == "tagged nodes do not have a user identity"
ErrNoUser == "failed to identify remote user"

\* returns (u, err): u = nil is isNil, err = nil is the empty string
WhoisReturn(isNil, u, err, called) ==
    [isNil |-> isNil, u |-> u, err |-> err, calls |-> called]

\* a resolver that looks at the profile before it looks at the node's tags
tailscaleWhois_profileFirst(mode, hdrLogin, hdrName, whois) ==
    IF hdrLogin # <<>>
    THEN WhoisReturn(FALSE, WhoIsData(hdrLogin, hdrName), "", <<>>)
    ELSE LET called == <<"client.WhoIs">>
             none == WhoIsData(<<>>, <<>>)
         IN  IF whois.err
             THEN IF mode
                  THEN WhoisReturn(TRUE, none, ErrTsnet, called)
                  ELSE WhoisReturn(TRUE, none, ErrNotViaTailscale, called)
             ELSE IF whois.hasProfile /\ whois.LoginName # <<>>
             THEN WhoisReturn(FALSE,
                              WhoIsData(whois.LoginName, whois.DisplayName),
                              "", called)
             ELSE IF whois.tagged
             THEN WhoisReturn(TRUE, none, ErrTagged, called)
             ELSE WhoisReturn(TRUE, none, ErrNoUser, called)

\* a resolver that asks the local client first and reads the header only
\* when the lookup fails
tailscaleWhois_lookupFirst(mode, hdrLogin, hdrName, whois) ==
    LET called == <<"client.WhoIs">>
        none == WhoIsData(<<>>, <<>>)
    IN  IF ~whois.err /\ ~whois.tagged /\ whois.hasProfile
           /\ whois.LoginName # <<>>
        THEN WhoisReturn(FALSE, WhoIsData(whois.LoginName, whois.DisplayName),
                         "", called)
        ELSE IF hdrLogin # <<>>
        THEN WhoisReturn(FALSE, WhoIsData(hdrLogin, hdrName), "", called)
        ELSE IF whois.err
        THEN WhoisReturn(TRUE, none,
                         IF mode THEN ErrTsnet ELSE ErrNotViaTailscale, called)
        ELSE IF whois.tagged
        THEN WhoisReturn(TRUE, none, ErrTagged, called)
        ELSE WhoisReturn(TRUE, none, ErrNoUser, called)

tailscaleWhois(mode, hdrLogin, hdrName, whois) ==
    IF hdrLogin # <<>>
    THEN WhoisReturn(FALSE, WhoIsData(hdrLogin, hdrName), "", <<>>)
    ELSE LET called == <<"client.WhoIs">>
             none == WhoIsData(<<>>, <<>>)
         IN  IF whois.err
             THEN IF mode
                  THEN WhoisReturn(TRUE, none, ErrTsnet, called)
                  ELSE WhoisReturn(TRUE, none, ErrNotViaTailscale, called)
             ELSE IF whois.tagged
             THEN WhoisReturn(TRUE, none, ErrTagged, called)
             ELSE IF ~whois.hasProfile \/ whois.LoginName = <<>>
             THEN WhoisReturn(TRUE, none, ErrNoUser, called)
             ELSE WhoisReturn(FALSE,
                              WhoIsData(whois.LoginName, whois.DisplayName),
                              "", called)

\* json encoding of the UserInfo struct: omitempty drops empty strings
UserInfo(connected, login, display, initial, error) ==
    JObj(<< <<"connected", JBool(connected)>> >>
         \o (IF login # <<>> THEN << <<"login_name", JStr(login)>> >> ELSE <<>>)
         \o (IF display # <<>> THEN << <<"display_name", JStr(display)>> >> ELSE <<>>)
         \o (IF initial # <<>> THEN << <<"first_initial", JStr(initial)>> >> ELSE <<>>)
         \o (IF error # <<>> THEN << <<"error", JStr(error)>> >> ELSE <<>>))

\* a handler that keeps the resolver's failure to the log
userHandler_noError(mode, hdrLogin, hdrName, whois) ==
    LET w0 == HeaderSet(NewWriter, "application/json")
        r == tailscaleWhois(mode, hdrLogin, hdrName, whois)
        connected == ~r.isNil
        login == IF r.isNil THEN <<>> ELSE r.u.LoginName
        display == IF r.isNil THEN <<>> ELSE r.u.DisplayName
        initial ==
            IF r.isNil THEN <<>>
            ELSE IF display # <<>> THEN RuneString(display[1])
            ELSE IF login # <<>> THEN RuneString(login[1])
            ELSE <<>>
    IN  [w |-> Encode(w0, UserInfo(connected, login, display, initial, <<>>)),
         calls |-> r.calls,
         reason |-> r.err]

\* a handler that copies the looked-up profile into the response before it
\* looks at the resolver's verdict
userHandler_leakProfile(mode, hdrLogin, hdrName, whois) ==
    LET w0 == HeaderSet(NewWriter, "application/json")
        r == tailscaleWhois(mode, hdrLogin, hdrName, whois)
        error == IF r.err # "" THEN TailscaleNotAvailable ELSE <<>>
        login == IF r.isNil THEN whois.LoginName ELSE r.u.LoginName
        display == IF r.isNil THEN whois.DisplayName ELSE r.u.DisplayName
        initial ==
            IF display # <<>> THEN RuneString(display[1])
            ELSE IF login # <<>> THEN RuneString(login[1])
            ELSE <<>>
    IN  [w |-> Encode(w0, UserInfo(~r.isNil, login, display, initial, error)),
         calls |-> r.calls,
         reason |-> r.err]

\* a handler that answers 401 when no identity was resolved
userHandler_unauthorized(mode, hdrLogin, hdrName, whois) ==
    LET w0 == HeaderSet(NewWriter, "application/json")
        r == tailscaleWhois(mode, hdrLogin, hdrName, whois)
        error == IF r.err # "" THEN TailscaleNotAvailable ELSE <<>>
        login == IF r.isNil THEN <<>> ELSE r.u.LoginName
        display == IF r.isNil THEN <<>> ELSE r.u.DisplayName
        initial ==
            IF r.isNil THEN <<>>
            ELSE IF display # <<>> THEN RuneString(display[1])
            ELSE IF login # <<>> THEN RuneString(login[1])
            ELSE <<>>
        w1 == IF r.isNil THEN WriteHeader(w0, 401) ELSE w0
    IN  [w |-> Encode(w1, UserInfo(~r.isNil, login, display, initial, error)),
         calls |-> r.calls,
         reason |-> r.err]

userHandler(mode, hdrLogin, hdrName, whois) ==
    LET w0 == HeaderSet(NewWriter, "application/json")
        r == tailscaleWhois(mode, hdrLogin, hdrName, whois)
        error == IF r.err # "" THEN TailscaleNotAvailable ELSE <<>>
        connected == ~r.isNil
        login == IF r.isNil THEN <<>> ELSE r.u.LoginName
        display == IF r.isNil THEN <<>> ELSE r.u.DisplayName
        initial ==
            IF r.isNil THEN <<>>
            ELSE IF display # <<>> THEN RuneString(display[1])
            ELSE IF login # <<>> THEN RuneString(login[1])
            ELSE <<>>
    IN  [w |-> Encode(w0, UserInfo(connected, login, display, initial, error)),
         calls |-> r.calls,
         reason |-> r.err]

----------------------------------------------------------------------------
(* The products table and the query productsHandler issues *)

Times == 1..MaxTime

Row(id, createdAt) == [id |-> id, created_at |-> createdAt]

Min(a, b) == IF a < b THEN a ELSE b

Reverse(s) == [i \in 1..Len(s) |-> s[Len(s) + 1 - i]]

\* rows with created_at = t, in heap order or in reverse heap order: SQL leaves
\* the order of rows with equal sort keys to the database
Ties(tbl, t, tieOrder) ==
    LET same == SelectSeq(tbl, LAMBDA r : r.created_at = t)
    IN  IF tieOrder = "heap" THEN same ELSE Reverse(same)

\* ORDER BY created_at DESC
RECURSIVE OrderByCreatedAtDesc(_, _, _)
OrderByCreatedAtDesc(tbl, t, tieOrder) ==
    IF t = 0 THEN <<>>
    ELSE Ties(tbl, t, tieOrder) \o OrderByCreatedAtDesc(tbl, t - 1, tieOrder)

\* a LIMIT that is not applied
Limit_none(rows, n) == rows

\* LIMIT n
Limit(rows, n) == SubSeq(rows, 1, Min(n, Len(rows)))

\* the query without its ORDER BY: rows come in heap order
Query_noOrder(tbl, tieOrder) ==
    Limit(IF tieOrder = "heap" THEN tbl ELSE Reverse(tbl), QueryLimit)

\* SELECT * FROM products ORDER BY created_at DESC LIMIT 100
Query(tbl, tieOrder) ==
    Limit(OrderByCreatedAtDesc(tbl, MaxTime, tieOrder), QueryLimit)

\* SELECT COUNT(*) FROM products
Count(tbl) == Len(tbl)

TieOrders == {"heap", "reverse"}

----------------------------------------------------------------------------
(* What the driver hands to rows.Scan, and what the handler makes of it *)

Digit(n) == <<"0", "1", "2", "3", "4", "5", "6", "7", "8", "9">>[n + 1]

RECURSIVE Digits(_)
Digits(n) == IF n < 10 THEN <<Digit(n)>> ELSE Append(Digits(n \div 10), Digit(n % 10))

GoNil == [go |-> "nil"]
GoInt64(n) == [go |-> "int64", v |-> n]
GoString(chars) == [go |-> "string", v |-> chars]
GoBytes(chars) == [go |-> "[]byte", v |-> chars]
GoTime(t) == [go |-> "time.Time", v |-> t]

\* rows.Columns(): the columns of the result set, in table order
columns == <<"id", "name", "description", "price", "created_at">>

\* the values of one row as lib/pq decodes them: SERIAL -> int64, VARCHAR ->
\* string, TEXT NULL -> nil, DECIMAL -> []byte, TIMESTAMP -> time.Time
DriverValues(row) ==
    <<GoInt64(row.id),
      GoString(<<"p">> \o Digits(row.id)),
      IF row.id % 2 = 0 THEN GoNil ELSE GoString(<<"d">>),
      GoBytes(<<"9", ".", "0", "0">>),
      GoTime(row.created_at)>>

\* t.Format(time.RFC3339) of the instant t seconds into 2024 (UTC)
FormatRFC3339(t) ==
    <<"2", "0", "2", "4", "-", "0", "1", "-", "0", "1", "T",
      "0", "0", ":", "0", "0", ":">>
    \o (IF t < 10 THEN <<"0">> ELSE <<>>) \o Digits(t) \o <<"Z">>

\* a type switch without the time.Time case
Coerce_noTime(val) ==
    IF val.go = "[]byte" THEN GoString(val.v)
    ELSE val

\* the type switch of the row loop
Coerce(val) ==
    IF val.go = "[]byte" THEN GoString(val.v)
    ELSE IF val.go = "time.Time" THEN GoString(FormatRFC3339(val.v))
    ELSE val

\* a row map that leaves NULL columns out
product_dropNull(values) ==
    [col \in {columns[i] : i \in {j \in 1..Len(columns) : values[j].go # "nil"}} |->
        Coerce(values[CHOOSE i \in 1..Len(columns) : columns[i] = col])]

\* the map built for one row
product(values) ==
    [col \in {columns[i] : i \in 1..Len(columns)} |->
        Coerce(values[CHOOSE i \in 1..Len(columns) : columns[i] = col])]

\* encoding/json of an interface{} value holding one of the types above
EncodeValue(val) ==
    IF val.go = "nil" THEN JNull
    ELSE IF val.go = "int64" THEN JNum(val.v)
    ELSE IF val.go = "string" THEN JStr(val.v)
    ELSE [t |-> "unsupported"]

\* encoding/json writes the keys of a map in sorted order
SortedKeys == <<"created_at", "description", "id", "name", "price">>

EncodeMap(m) ==
    LET keys == SelectSeq(SortedKeys, LAMBDA k : k \in DOMAIN m)
    IN  JObj([i \in 1..Len(keys) |-> <<keys[i], EncodeValue(m[keys[i]])>>])

\* a Go slice: nil until the first append
NilSlice == [nil |-> TRUE, elems |-> <<>>]
\* append, once per element of elems
appendAll(slice, elems) ==
    IF Len(elems) = 0 THEN slice
    ELSE [nil |-> FALSE, elems |-> slice.elems \o elems]

\* encoding/json of a []map[string]interface{}: a nil slice is null
EncodeSlice(slice) ==
    IF slice.nil THEN JNull
    ELSE JArr([i \in 1..Len(slice.elems) |-> EncodeMap(slice.elems[i])])

----------------------------------------------------------------------------
(* productsHandler *)

QueryErrPrefix ==
    <<"{", "\"", "e", "r", "r", "o", "r", "\"", ":", " ", "\"", "F", "a", "i",
      "l", "e", "d", " ", "t", "o", " ", "q", "u", "e", "r", "y", " ", "d",
      "a", "t", "a", "b", "a", "s", "e", ":", " ">>
ColumnsErrPrefix ==
    <<"{", "\"", "e", "r", "r", "o", "r", "\"", ":", " ", "\"", "F", "a", "i",
      "l", "e", "d", " ", "t", "o", " ", "g", "e", "t", " ", "c", "o", "l",
      "u", "m", "n", "s", ":", " ">>
ScanErrPrefix ==
    <<"{", "\"", "e", "r", "r", "o", "r", "\"", ":", " ", "\"", "F", "a", "i",
      "l", "e", "d", " ", "t", "o", " ", "s", "c", "a", "n", " ", "r", "o",
      "w", ":", " ">>
RowsErrPrefix ==
    <<"{", "\"", "e", "r", "r", "o", "r", "\"", ":", " ", "\"", "E", "r", "r",
      "o", "r", " ", "i", "t", "e", "r", "a", "t", "i", "n", "g", " ", "r",
      "o", "w", "s", ":", " ">>
ErrSuffix == <<"\"", "}">>

\* fmt.Sprintf(`{"error": "<prefix>%s"}`, err.Error())
Sprintf(prefix, msg) == prefix \o msg \o ErrSuffix

\* a failure of the database during one request: where it strikes (site), at
\* which row (at), and the text of err.Error()
NoFault == [site |-> "none", at |-> 0, msg |-> <<>>]
Fault(site, at, msg) == [site |-> site, at |-> at, msg |-> msg]

\* a row loop that does not look at rows.Err(): a broken cursor ends the loop
\* and the rows decoded so far are sent
rowsLoop_partial(w, rows, fault) ==
    LET appended ==
            IF fault.site = "scan" THEN fault.at - 1
            ELSE IF fault.site = "rows" THEN fault.at
            ELSE Len(rows)
        products ==
            appendAll(NilSlice,
                      [i \in 1..appended |-> product(DriverValues(rows[i]))])
    IN  IF fault.site = "scan"
        THEN HttpError(w, Sprintf(ScanErrPrefix, fault.msg),
                       StatusInternalServerError)
        ELSE Encode(w, EncodeSlice(products))

\* the row loop, rows.Err() and the final Encode.  The loop appends one map per
\* row until rows.Next() returns false (the result is exhausted, or the cursor
\* broke after fault.at rows) or rows.Scan fails (on row fault.at).
rowsLoop(w, rows, fault) ==
    LET appended ==
            IF fault.site = "scan" THEN fault.at - 1
            ELSE IF fault.site = "rows" THEN fault.at
            ELSE Len(rows)
        products ==
            appendAll(NilSlice,
                      [i \in 1..appended |-> product(DriverValues(rows[i]))])
    IN  IF fault.site = "scan"
        THEN HttpError(w, Sprintf(ScanErrPrefix, fault.msg),
                       StatusInternalServerError)
        ELSE IF fault.site = "rows"
        THEN HttpError(w, Sprintf(RowsErrPrefix, fault.msg),
                       StatusInternalServerError)
        ELSE Encode(w, EncodeSlice(products))

\* a handler that runs the query a second time when it fails
productsHandler_retry(rows, fault) ==
    LET w0 == HeaderSet(NewWriter, "application/json")
        called == <<"db.QueryContext">>
    IN  IF fault.site = "query"
        THEN [w |-> HttpError(w0, Sprintf(QueryErrPrefix, fault.msg),
                              StatusInternalServerError),
              calls |-> called \o called]
        ELSE IF fault.site = "columns"
        THEN [w |-> HttpError(w0, Sprintf(ColumnsErrPrefix, fault.msg),
                              StatusInternalServerError),
              calls |-> called]
        ELSE [w |-> rowsLoop(w0, rows, fault),
              calls |-> called]

productsHandler(rows, fault) ==
    LET w0 == HeaderSet(NewWriter, "application/json")
        called == <<"db.QueryContext">>
    IN  IF fault.site = "query"
        THEN [w |-> HttpError(w0, Sprintf(QueryErrPrefix, fault.msg),
                              StatusInternalServerError),
              calls |-> called]
        ELSE IF fault.site = "columns"
        THEN [w |-> HttpError(w0, Sprintf(ColumnsErrPrefix, fault.msg),
                              StatusInternalServerError),
              calls |-> called]
        ELSE [w |-> rowsLoop(w0, rows, fault),
              calls |-> called]

----------------------------------------------------------------------------
NoReq == [endpoint |-> "none"]

\* no exchange has been delivered yet
NoPrev == [req |-> NoReq, table |-> <<>>, body |-> NoBody]

\* the page has not fetched anything yet
NoWidgets == [w \in {"user", "products", "health"} |->
                 [view |-> "loading", bad |-> FALSE]]

\* no handler goroutine is running
NoSlots == <<>>

\* a database no migration has touched
NoSchema ==
    [version |-> 0, exists |-> FALSE, rows |-> {}, last |-> "none",
     before |-> {}]

RestIdle ==
    /\ widgets = NoWidgets
    /\ slots = NoSlots
    /\ schema = NoSchema

----------------------------------------------------------------------------
(* The process: main, startTsnetServer, startRegularServer *)

\* the calls whose failure is fatal
Steps == {"ts.Start", "ts.LocalClient", "ts.Listen", "ListenAndServe"}

\* the patterns main registers on the mux
Routes == {"/static/", "/", "/health", "/api/user", "/api/products"}

AuthKeys == {<<>>, <<"k">>}

NoHistory ==
    [attempts |-> [s \in Steps |-> 0],   \* times each step was called
     failed   |-> "none",                \* the step that failed
     started  |-> {},                    \* the start functions main called
     routes   |-> {},                    \* the patterns on the mux at that call
     served   |-> 0,                     \* connections accepted
     late     |-> FALSE,                 \* one was accepted after the signal
     completed |-> {},                   \* requests that outlived the signal
     aborted  |-> {},                    \* requests cut off by the exit
     order    |-> <<>>,                  \* the start-up steps done, in order
     used     |-> {}]                    \* the identity clients handlers ran with

\* startTsnetServer from its first call to the serving goroutine
TsnetOrder ==
    <<"ts.Start", "ts.LocalClient", "server.client", "ts.Listen", "Serve">>

NewServer == [listener |-> "none", serve |-> "none", inShutdown |-> FALSE]

\* the process after a successful start in the given mode: main blocks on
\* the quit channel, the Serve goroutine accepts connections
Serving(mode) ==
    /\ authKey = IF mode THEN <<"k">> ELSE <<>>
    /\ pc = "wait"
    /\ client = IF mode THEN "tsnet" ELSE "placeholder"
    /\ srv = [listener |-> "open", serve |-> "running", inShutdown |-> FALSE]
    /\ quit = [registered |-> TRUE, pending |-> 0]
    /\ inflight = {}
    /\ timer = 0
    /\ hist = [NoHistory EXCEPT
                  !.started = {IF mode THEN "tsnet" ELSE "regular"},
                  !.routes = Routes,
                  !.order = IF mode THEN TsnetOrder ELSE <<"ListenAndServe">>,
                  !.attempts =
                      [s \in Steps |->
                          IF mode = (s # "ListenAndServe") THEN 1 ELSE 0]]

\* a table of n rows whose creation times repeat the given pattern
PatternTable(n, pattern) ==
    [i \in 1..n |-> Row(i, pattern[((i - 1) % Len(pattern)) + 1])]

Patterns == SeqsUpTo(Times, 2) \ {<<>>}

\* the table as the server finds it: small tables with any creation times,
\* and tables around the query's row limit
InitTables ==
    {PatternTable(Len(ts), ts) : ts \in SeqsUpTo(Times, SmallRows)}
    \cup {PatternTable(n, pattern) :
             n \in (QueryLimit - 1)..(QueryLimit + OverLimit),
             pattern \in Patterns}

\* the server is up in one of its two modes and waits for requests
Init ==
    /\ tsnetMode \in BOOLEAN
    /\ table \in InitTables
    /\ req = NoReq
    /\ resp = NewWriter
    /\ calls = <<>>
    /\ prev = NoPrev
    /\ Serving(tsnetMode)
    /\ RestIdle

\* the characters of a dependency's error text: a letter, and the two
\* characters that mean something inside a JSON string
MsgChars == {"x", Quote, Backslash}
Messages == SeqsUpTo(MsgChars, MaxMsgLen)

Faults(rows) ==
    {NoFault}
    \cup {Fault(site, 0, msg) : site \in {"query", "columns"}, msg \in Messages}
    \cup {Fault("scan", at, msg) :
             at \in 1..Min(MaxFaultRow, Len(rows)), msg \in Messages}
    \cup {Fault("rows", at, msg) :
             at \in 0..Min(MaxFaultRow, Len(rows)), msg \in Messages}

\* the server takes up a request once the previous response has been delivered
Idle == req = NoReq

HandleHealth ==
    /\ Idle
    /\ \E pingOk \in BOOLEAN, status \in StatusResults :
        LET out == healthHandler(pingOk, status)
        IN  /\ req' = [endpoint |-> "/health", pingOk |-> pingOk,
                       status |-> status]
            /\ resp' = out.w
            /\ calls' = out.calls
            /\ UNCHANGED <<tsnetMode, table, prev, lifeVars, restVars>>

HandleUser ==
    /\ Idle
    /\ \E hdrLogin \in HeaderValues, hdrName \in HeaderValues,
       whois \in WhoIsResults :
        LET out == userHandler(tsnetMode, hdrLogin, hdrName, whois)
        IN  /\ req' = [endpoint |-> "/api/user", hdrLogin |-> hdrLogin,
                       hdrName |-> hdrName, whois |-> whois]
            /\ resp' = out.w
            /\ calls' = out.calls
            /\ UNCHANGED <<tsnetMode, table, prev, lifeVars, restVars>>

HandleProducts ==
    /\ Idle
    /\ \E tieOrder \in TieOrders :
        LET rows == Query(table, tieOrder)
        IN  \E fault \in Faults(rows) :
                LET out == productsHandler(rows, fault)
                IN  /\ req' = [endpoint |-> "/api/products",
                               tieOrder |-> tieOrder, fault |-> fault]
                    /\ resp' = out.w
                    /\ calls' = out.calls
                    /\ UNCHANGED <<tsnetMode, table, prev, lifeVars, restVars>>

\* INSERT INTO products: the next serial id, any creation time
InsertProduct ==
    /\ Idle
    /\ Len(table) < SmallRows
    /\ \E t \in Times :
        table' = Append(table, Row(Len(table) + 1, t))
    /\ UNCHANGED <<tsnetMode, req, resp, calls, prev, lifeVars, restVars>>

\* the client has read the response; the connection serves the next request
Deliver ==
    /\ ~Idle
    /\ req' = NoReq
    /\ resp' = NewWriter
    /\ calls' = <<>>
    /\ UNCHANGED <<tsnetMode, table, prev, lifeVars, restVars>>

Next ==
    \/ HandleHealth
    \/ HandleUser
    \/ HandleProducts
    \/ InsertProduct
    \/ Deliver

Spec == Init /\ [][Next]_vars

----------------------------------------------------------------------------
(* A client that repeats its GET requests and keeps the previous answer *)

\* the response is delivered; the client keeps an exchange the database
\* did not fail, together with the table the request ran against
Remember ==
    /\ ~Idle
    /\ req.endpoint = "/api/products" => req.fault = NoFault
    /\ prev' = [req |-> req, table |-> table, body |-> resp.body]
    /\ req' = NoReq
    /\ resp' = NewWriter
    /\ calls' = <<>>
    /\ UNCHANGED <<tsnetMode, table, lifeVars, restVars>>

InitRepeat ==
    /\ tsnetMode \in BOOLEAN
    /\ table \in {PatternTable(Len(ts), ts) : ts \in SeqsUpTo(Times, SmallRows)}
    /\ req = NoReq
    /\ resp = NewWriter
    /\ calls = <<>>
    /\ prev = NoPrev
    /\ Serving(tsnetMode)
    /\ RestIdle

NextRepeat ==
    \/ HandleHealth
    \/ HandleProducts
    \/ InsertProduct
    \/ Remember
    \/ Deliver

SpecRepeat == InitRepeat /\ [][NextRepeat]_vars

----------------------------------------------------------------------------
(* The process from main to exit *)

handlerVars == <<table, req, resp, calls, prev, restVars>>

\* how long a handler still has to run when its connection is accepted; a
\* handler may also never return
Durations == {2, GracePeriod + 1}

Request(id, left, stuck) ==
    [id |-> id, left |-> left, stuck |-> stuck,
     old |-> FALSE,    \* in flight when Shutdown was called
     need |-> 0]       \* seconds it still had to run at that moment

\* log.Fatalf: the cause is logged and the process exits at once
Fatal(step) ==
    /\ pc' = "exited"
    /\ hist' = [hist EXCEPT !.attempts[step] = @ + 1, !.failed = step]

Called(step) ==
    hist' = [hist EXCEPT !.attempts[step] = @ + 1, !.order = Append(@, step)]

\* main: the mode is read off the configuration, the Server and the mux are
\* built, and the start function of the mode is entered
ChooseMode_alwaysRegular ==
    /\ pc = "main"
    /\ LET useTsnet == authKey # <<>>
       IN  /\ tsnetMode' = useTsnet
           /\ client' = "placeholder"
           /\ srv' = NewServer
           /\ pc' = "notify"
           /\ hist' = [hist EXCEPT !.started = @ \cup {"regular"},
                                   !.routes = Routes]
    /\ UNCHANGED <<handlerVars, authKey, quit, inflight, timer>>

ChooseMode ==
    /\ pc = "main"
    /\ LET useTsnet == authKey # <<>>
       IN  /\ tsnetMode' = useTsnet
           /\ client' = "placeholder"
           /\ srv' = NewServer
           /\ pc' = IF useTsnet THEN "ts.Start" ELSE "notify"
           /\ hist' = [hist EXCEPT
                          !.started =
                              @ \cup {IF useTsnet THEN "tsnet" ELSE "regular"},
                          !.routes = Routes]
    /\ UNCHANGED <<handlerVars, authKey, quit, inflight, timer>>

\* startTsnetServer: ts.Start()
TsStart_retry ==
    /\ pc = "ts.Start"
    /\ \E ok \in BOOLEAN :
        IF ok THEN pc' = "ts.LocalClient" /\ Called("ts.Start")
        ELSE pc' = "ts.Start" /\ Called("ts.Start")
    /\ hist.attempts["ts.Start"] < 2
    /\ UNCHANGED <<handlerVars, tsnetMode, authKey, client, srv, quit,
                   inflight, timer>>

TsStart ==
    /\ pc = "ts.Start"
    /\ \E ok \in BOOLEAN :
        IF ok THEN pc' = "ts.LocalClient" /\ Called("ts.Start")
        ELSE Fatal("ts.Start")
    /\ UNCHANGED <<handlerVars, tsnetMode, authKey, client, srv, quit,
                   inflight, timer>>

\* startTsnetServer: ts.LocalClient(), then server.client = lc
TsLocalClient_noInstall ==
    /\ pc = "ts.LocalClient"
    /\ \E ok \in BOOLEAN :
        IF ok
        THEN /\ pc' = "ts.Listen"
             /\ Called("ts.LocalClient")
             /\ UNCHANGED client
        ELSE /\ Fatal("ts.LocalClient")
             /\ UNCHANGED client
    /\ UNCHANGED <<handlerVars, tsnetMode, authKey, srv, quit, inflight,
                   timer>>

TsLocalClient ==
    /\ pc = "ts.LocalClient"
    /\ \E ok \in BOOLEAN :
        IF ok
        THEN /\ client' = "tsnet"
             /\ pc' = "ts.Listen"
             /\ hist' = [hist EXCEPT
                            !.attempts["ts.LocalClient"] = @ + 1,
                            !.order = @ \o <<"ts.LocalClient",
                                             "server.client">>]
        ELSE /\ Fatal("ts.LocalClient")
             /\ UNCHANGED client
    /\ UNCHANGED <<handlerVars, tsnetMode, authKey, srv, quit, inflight,
                   timer>>

\* startTsnetServer: ts.Listen("tcp", ":80")
TsListen ==
    /\ pc = "ts.Listen"
    /\ \E ok \in BOOLEAN :
        IF ok
        THEN /\ srv' = [srv EXCEPT !.listener = "open"]
             /\ pc' = "notify"
             /\ Called("ts.Listen")
        ELSE /\ Fatal("ts.Listen")
             /\ UNCHANGED srv
    /\ UNCHANGED <<handlerVars, tsnetMode, authKey, client, quit, inflight,
                   timer>>

\* both start functions: signal.Notify(quit, SIGINT, SIGTERM), then the
\* goroutine that will serve is started and main blocks on <-quit
Notify ==
    /\ pc = "notify"
    /\ quit' = [quit EXCEPT !.registered = TRUE]
    /\ srv' = [srv EXCEPT !.serve = "spawned"]
    /\ pc' = "wait"
    /\ UNCHANGED <<handlerVars, tsnetMode, authKey, client, inflight, timer,
                   hist>>

\* the goroutine runs: httpServer.Serve(ln) in tsnet mode, and
\* httpServer.ListenAndServe() in regular mode, which binds the port first
\* and whose error is fatal.  Either returns ErrServerClosed at once when
\* Shutdown has been called before.
ServeStart ==
    /\ pc # "exited"
    /\ srv.serve = "spawned"
    /\ IF srv.inShutdown
       THEN /\ srv' = [srv EXCEPT !.serve = "returned"]
            /\ UNCHANGED <<pc, hist>>
       ELSE IF tsnetMode
       THEN /\ srv' = [srv EXCEPT !.serve = "running"]
            /\ hist' = [hist EXCEPT !.order = Append(@, "Serve")]
            /\ UNCHANGED pc
       ELSE \E ok \in BOOLEAN :
               IF ok
               THEN /\ srv' = [srv EXCEPT !.listener = "open",
                                          !.serve = "running"]
                    /\ Called("ListenAndServe")
                    /\ UNCHANGED pc
               ELSE /\ srv' = [srv EXCEPT !.serve = "returned"]
                    /\ Fatal("ListenAndServe")
    /\ UNCHANGED <<handlerVars, tsnetMode, authKey, client, quit, inflight,
                   timer>>

\* the Serve loop accepts a connection and starts its handler
Accept ==
    /\ pc # "exited"
    /\ srv.serve = "running"
    /\ srv.listener = "open"
    /\ ~srv.inShutdown
    /\ hist.served < MaxRequests
    /\ \E left \in Durations, stuck \in BOOLEAN :
        inflight' = inflight \cup {Request(hist.served + 1, left, stuck)}
    /\ hist' = [hist EXCEPT !.served = @ + 1,
                            !.late = @ \/ pc = "shutdown",
                            !.used = @ \cup {client}]
    /\ UNCHANGED <<handlerVars, tsnetMode, authKey, pc, client, srv, quit,
                   timer>>

\* a handler returns and its response is written
Complete ==
    /\ pc # "exited"
    /\ \E r \in inflight :
        /\ ~r.stuck
        /\ r.left = 0
        /\ inflight' = inflight \ {r}
        /\ hist' = [hist EXCEPT
                       !.completed = IF r.old THEN @ \cup {r} ELSE @]
    /\ UNCHANGED <<handlerVars, tsnetMode, authKey, pc, client, srv, quit,
                   timer>>

\* a second passes: handlers that are due have returned before it does, and
\* the context of Shutdown is not outlived
Tick ==
    /\ pc # "exited"
    /\ inflight # {} \/ pc = "shutdown"
    /\ \A r \in inflight : r.stuck \/ r.left > 0
    /\ pc = "shutdown" => timer < GracePeriod
    /\ inflight' = {IF r.stuck THEN r ELSE [r EXCEPT !.left = @ - 1] :
                        r \in inflight}
    /\ timer' = IF pc = "shutdown" THEN timer + 1 ELSE timer
    /\ UNCHANGED <<handlerVars, tsnetMode, authKey, pc, client, srv, quit,
                   hist>>

\* the operating system delivers SIGINT or SIGTERM: into the buffered quit
\* channel once signal.Notify has run, and with the default disposition
\* (the process is terminated) before that
Signal ==
    /\ pc # "exited"
    /\ IF quit.registered
       THEN /\ quit' = [quit EXCEPT !.pending = 1]
            /\ UNCHANGED pc
       ELSE /\ pc' = "exited"
            /\ UNCHANGED quit
    /\ UNCHANGED <<handlerVars, tsnetMode, authKey, client, srv, inflight,
                   timer, hist>>

\* <-quit returns and httpServer.Shutdown is called with a context of
\* GracePeriod seconds: the listener is closed, Serve will return, and
\* Shutdown waits for the requests in flight
ReceiveQuit_close ==
    /\ pc = "wait"
    /\ quit.pending = 1
    /\ quit' = [quit EXCEPT !.pending = 0]
    /\ srv' = [srv EXCEPT
                  !.inShutdown = TRUE,
                  !.listener = IF srv.serve = "running" THEN "closed" ELSE @]
    /\ timer' = 0
    /\ inflight' = {}
    /\ hist' = [hist EXCEPT
                   !.aborted = @ \cup {[r EXCEPT !.old = TRUE, !.need = r.left] :
                                          r \in inflight}]
    /\ pc' = "exited"
    /\ UNCHANGED <<handlerVars, tsnetMode, authKey, client>>

ReceiveQuit ==
    /\ pc = "wait"
    /\ quit.pending = 1
    /\ quit' = [quit EXCEPT !.pending = 0]
    /\ srv' = [srv EXCEPT
                  !.inShutdown = TRUE,
                  !.listener = IF srv.serve = "running" THEN "closed" ELSE @]
    /\ timer' = 0
    /\ inflight' = {[r EXCEPT !.old = TRUE, !.need = r.left] : r \in inflight}
    /\ pc' = "shutdown"
    /\ UNCHANGED <<handlerVars, tsnetMode, authKey, client, hist>>

\* the Serve loop notices the closed listener and returns ErrServerClosed
ServeReturn ==
    /\ pc # "exited"
    /\ srv.serve = "running"
    /\ srv.inShutdown
    /\ srv' = [srv EXCEPT !.serve = "returned"]
    /\ UNCHANGED <<handlerVars, tsnetMode, authKey, pc, client, quit,
                   inflight, timer, hist>>

\* Shutdown returns nil: nothing is in flight any more; main returns
ShutdownDone ==
    /\ pc = "shutdown"
    /\ inflight = {}
    /\ pc' = "exited"
    /\ UNCHANGED <<handlerVars, tsnetMode, authKey, client, srv, quit,
                   inflight, timer, hist>>

\* the context expires: Shutdown returns its error, which is logged, and
\* main returns while handlers are still running
ShutdownTimeout_noDeadline ==
    /\ pc = "shutdown"
    /\ timer = GracePeriod
    /\ inflight # {}
    /\ UNCHANGED vars

ShutdownTimeout ==
    /\ pc = "shutdown"
    /\ timer = GracePeriod
    /\ inflight # {}
    /\ hist' = [hist EXCEPT !.aborted = @ \cup inflight]
    /\ inflight' = {}
    /\ pc' = "exited"
    /\ UNCHANGED <<handlerVars, tsnetMode, authKey, client, srv, quit, timer>>

\* the process has been executed with its configuration parsed and the
\* database handle opened; main is about to choose the mode
InitLife ==
    /\ tsnetMode = FALSE
    /\ table = <<>>
    /\ req = NoReq
    /\ resp = NewWriter
    /\ calls = <<>>
    /\ prev = NoPrev
    /\ authKey \in AuthKeys
    /\ pc = "main"
    /\ client = "none"
    /\ srv = NewServer
    /\ quit = [registered |-> FALSE, pending |-> 0]
    /\ inflight = {}
    /\ timer = 0
    /\ hist = NoHistory
    /\ RestIdle

NextLife ==
    \/ ChooseMode
    \/ TsStart
    \/ TsLocalClient
    \/ TsListen
    \/ Notify
    \/ ServeStart
    \/ Accept
    \/ Complete
    \/ Tick
    \/ Signal
    \/ ReceiveQuit
    \/ ServeReturn
    \/ ShutdownDone
    \/ ShutdownTimeout

SpecLife == InitLife /\ [][NextLife]_vars

\* main is a running goroutine, handlers that are due return, time passes
\* and a Shutdown that may return does
FairLife ==
    /\ SpecLife
    /\ WF_vars(ReceiveQuit)
    /\ WF_vars(Complete)
    /\ WF_vars(Tick)
    /\ WF_vars(ShutdownDone)
    /\ WF_vars(ShutdownTimeout)

----------------------------------------------------------------------------
(* The page in the browser: fetchUserInfo, fetchProducts, fetchHealth *)

Widgets == {"user", "products", "health"}

WidgetOf(endpoint) ==
    CASE endpoint = "/api/user" -> "user"
      [] endpoint = "/api/products" -> "products"
      [] endpoint = "/health" -> "health"

JUndefined == [t |-> "undefined"]

\* whether JavaScript takes the value for true in a condition
Truthy(v) ==
    CASE v.t = "bool" -> v.v
      [] v.t = "num" -> v.v # 0
      [] v.t = "str" -> v.v # <<>>
      [] v.t \in {"arr", "obj"} -> TRUE
      [] OTHER -> FALSE

\* data.p for a value that is neither null nor undefined
Prop(v, p) == IF v.t = "obj" /\ HasKey(v, p) THEN Member(v, p) ELSE JUndefined

\* await response.json(): the decoded body, or a rejection (JInvalid)
ResponseJson(w) == BodyJson(w)

\* what each function leaves in its element: the catch block's message
\* ("failed") replaces it whenever the try block throws
fetchUserInfo(data) ==
    IF data.t \in {"invalid", "null"} THEN "failed"
    ELSE IF Truthy(Prop(data, "connected")) THEN "profile"
    ELSE "notConnected"

fetchProducts(data) ==
    IF data.t = "invalid" THEN "failed"
    ELSE IF ~Truthy(data) THEN "empty"
    ELSE IF data.t = "arr"
    THEN IF Len(data.v) = 0 THEN "empty"
         ELSE IF \E i \in 1..Len(data.v) : data.v[i].t = "null" THEN "failed"
         ELSE "list"
    ELSE IF data.t = "str" THEN "failed"
    ELSE IF Prop(data, "length").t = "num" /\ Prop(data, "length").v > 0
    THEN "failed"
    ELSE "empty"

fetchHealth(data) ==
    IF data.t \in {"invalid", "null"} THEN "failed"
    ELSE IF Prop(data, "status").t = "str" THEN "status"
    ELSE "failed"

View(widget, data) ==
    CASE widget = "user" -> fetchUserInfo(data)
      [] widget = "products" -> fetchProducts(data)
      [] widget = "health" -> fetchHealth(data)

\* the response arrives and the function that fetched it fills its element
Render ==
    /\ ~Idle
    /\ LET widget == WidgetOf(req.endpoint)
           data == ResponseJson(resp)
       IN  widgets' = [widgets EXCEPT
                          ![widget] =
                              [view |-> View(widget, data),
                               bad |-> resp.code # StatusOK
                                       \/ data.t = "invalid"]]
    /\ req' = NoReq
    /\ resp' = NewWriter
    /\ calls' = <<>>
    /\ UNCHANGED <<tsnetMode, table, prev, lifeVars, slots, schema>>

\* fetch itself rejects (the server cannot be reached): the catch block runs
FetchRejected ==
    /\ Idle
    /\ \E widget \in Widgets :
        widgets' = [widgets EXCEPT
                       ![widget] = [view |-> "failed", bad |-> FALSE]]
    /\ UNCHANGED <<tsnetMode, table, req, resp, calls, prev, lifeVars, slots,
                   schema>>

InitFront ==
    /\ tsnetMode \in BOOLEAN
    /\ table \in {PatternTable(n, <<1>>) : n \in 0..1}
    /\ req = NoReq
    /\ resp = NewWriter
    /\ calls = <<>>
    /\ prev = NoPrev
    /\ Serving(tsnetMode)
    /\ RestIdle

NextFront ==
    \/ HandleHealth
    \/ HandleUser
    \/ HandleProducts
    \/ Render
    \/ FetchRejected

SpecFront == InitFront /\ [][NextFront]_vars

----------------------------------------------------------------------------
(* Handlers as goroutines: contexts, dependency calls in progress, time *)

\* r.Context(), context.Background() and context.WithTimeout: a context is
\* done when its root is cancelled or its deadline has passed
RequestCtx == [root |-> "request", timeout |-> 0]
Background == [root |-> "background", timeout |-> 0]
WithTimeout(parent, seconds) ==
    [parent EXCEPT !.timeout = IF @ = 0 THEN seconds ELSE Min(@, seconds)]

\* the context each dependency call is given
PingCtx_background == WithTimeout(Background, PingTimeout)

PingCtx == WithTimeout(RequestCtx, PingTimeout)
StatusCtx == RequestCtx
WhoIsCtx == RequestCtx
QueryCtx == WithTimeout(RequestCtx, QueryTimeout)

NoHealth == [database |-> <<>>, tailscale |-> <<>>]

IdleSlot ==
    [at |-> "idle",            \* the call the handler waits in, or "done"
     endpoint |-> "none",
     ctx |-> Background,       \* the context of that call
     elapsed |-> 0,            \* seconds the call has been running
     cancelled |-> FALSE,      \* the request's context has been cancelled
     hdrLogin |-> <<>>,
     hdrName |-> <<>>,
     health |-> NoHealth,      \* healthHandler's local HealthResponse
     results |-> <<>>,         \* what its dependency calls returned
     w |-> NewWriter]

Pending(slot) == slot.at \in {"ping", "status", "whois", "query"}

Done(slot) ==
    \/ slot.ctx.root = "request" /\ slot.cancelled
    \/ slot.ctx.timeout > 0 /\ slot.elapsed >= slot.ctx.timeout

\* the error text of a call whose context is done
ContextErr ==
    <<"c", "o", "n", "t", "e", "x", "t", " ",
      "c", "a", "n", "c", "e", "l", "e", "d">>

\* the requests and dependency results drawn while handlers interleave
SlotHeaders == {<<>>, <<"a">>}
SlotWhoIs ==
    {WhoIsErr,
     [err |-> FALSE, tagged |-> FALSE, hasProfile |-> TRUE,
      LoginName |-> <<"a">>, DisplayName |-> <<>>]}
SlotFaults == {NoFault, Fault("query", 0, <<"x">>)}

\* what the call a handler waits in may return, and what it returns once
\* its context is done
Answers(slot) ==
    CASE slot.at = "ping" -> BOOLEAN
      [] slot.at = "status" -> StatusResults
      [] slot.at = "whois" -> SlotWhoIs
      [] slot.at = "query" -> SlotFaults

ContextDone(slot) ==
    CASE slot.at = "ping" -> FALSE
      [] slot.at = "status" -> StatusErr
      [] slot.at = "whois" -> WhoIsErr
      [] slot.at = "query" -> Fault("query", 0, ContextErr)

\* the HealthResponse a healthHandler goroutine fills in
Locals_shared(ss, i) == ss[1].health

Locals(ss, i) == ss[i].health

\* the handler starts and runs up to its first dependency call
Begin ==
    \E i \in DOMAIN slots :
        /\ slots[i].at = "idle"
        /\ \/ slots' = [slots EXCEPT ![i] =
                  [IdleSlot EXCEPT
                      !.endpoint = "/health",
                      !.at = "ping",
                      !.ctx = PingCtx,
                      !.health = [database |-> StrDisconnected,
                                  tailscale |-> StrUnknown],
                      !.w = HeaderSet(NewWriter, "application/json")]]
           \/ slots' = [slots EXCEPT ![i] =
                  [IdleSlot EXCEPT
                      !.endpoint = "/api/products",
                      !.at = "query",
                      !.ctx = QueryCtx,
                      !.w = HeaderSet(NewWriter, "application/json")]]
           \/ \E hdrLogin \in SlotHeaders :
                 slots' = [slots EXCEPT ![i] =
                     [IdleSlot EXCEPT
                         !.endpoint = "/api/user",
                         !.hdrLogin = hdrLogin,
                         !.at = IF hdrLogin # <<>> THEN "done" ELSE "whois",
                         !.ctx = WhoIsCtx,
                         !.w = IF hdrLogin # <<>>
                               THEN userHandler(tsnetMode, hdrLogin, <<>>,
                                                WhoIsErr).w
                               ELSE HeaderSet(NewWriter, "application/json")]]
    /\ UNCHANGED <<tsnetMode, table, req, resp, calls, prev, lifeVars,
                   widgets, schema>>

\* the call of goroutine i returns result, and the handler runs on to its
\* next call or to its end
Continue(i, result) ==
    LET slot == slots[i]
        got == Append(slot.results, result)
    IN  CASE slot.at = "ping" ->
                 slots' = [slots EXCEPT ![i] =
                     [slot EXCEPT
                         !.health.database =
                             IF result THEN StrConnected ELSE @,
                         !.results = got,
                         !.at = "status",
                         !.ctx = StatusCtx,
                         !.elapsed = 0]]
          [] slot.at = "status" ->
                 LET tailscale ==
                         IF ~result.err /\ ~result.nil
                         THEN IF result.BackendState = StrRunning
                              THEN StrConnected
                              ELSE result.BackendState
                         ELSE StrUnknown
                     health == [Locals(slots, i) EXCEPT !.tailscale = tailscale]
                 IN  slots' = [slots EXCEPT ![i] =
                         [slot EXCEPT
                             !.health = health,
                             !.results = got,
                             !.at = "done",
                             !.w = Encode(WriteHeader(slot.w, StatusOK),
                                          HealthResponse(StrOk,
                                                         health.database,
                                                         health.tailscale))]]
          [] slot.at = "whois" ->
                 slots' = [slots EXCEPT ![i] =
                     [slot EXCEPT
                         !.results = got,
                         !.at = "done",
                         !.w = userHandler(tsnetMode, slot.hdrLogin,
                                           slot.hdrName, result).w]]
          [] slot.at = "query" ->
                 slots' = [slots EXCEPT ![i] =
                     [slot EXCEPT
                         !.results = got,
                         !.at = "done",
                         !.w = productsHandler(Query(table, "heap"),
                                               result).w]]

\* the dependency answers
Respond ==
    /\ \E i \in DOMAIN slots :
        /\ Pending(slots[i])
        /\ ~Done(slots[i])
        /\ \E result \in Answers(slots[i]) : Continue(i, result)
    /\ UNCHANGED <<tsnetMode, table, req, resp, calls, prev, lifeVars,
                   widgets, schema>>

\* the context of the call is done: the call returns the context's error
Expire ==
    /\ \E i \in DOMAIN slots :
        /\ Pending(slots[i])
        /\ Done(slots[i])
        /\ Continue(i, ContextDone(slots[i]))
    /\ UNCHANGED <<tsnetMode, table, req, resp, calls, prev, lifeVars,
                   widgets, schema>>

\* a second passes for the calls that run against a deadline; a call whose
\* deadline has passed returns before the next second does
Elapse ==
    /\ \E i \in DOMAIN slots : Pending(slots[i]) /\ slots[i].ctx.timeout > 0
    /\ \A i \in DOMAIN slots :
        (Pending(slots[i]) /\ slots[i].ctx.timeout > 0)
            => slots[i].elapsed < slots[i].ctx.timeout
    /\ slots' = [i \in DOMAIN slots |->
                    IF Pending(slots[i]) /\ slots[i].ctx.timeout > 0
                    THEN [slots[i] EXCEPT !.elapsed = @ + 1]
                    ELSE slots[i]]
    /\ UNCHANGED <<tsnetMode, table, req, resp, calls, prev, lifeVars,
                   widgets, schema>>

\* the client goes away: net/http cancels the request's context
CancelRequest ==
    /\ \E i \in DOMAIN slots :
        /\ Pending(slots[i])
        /\ ~slots[i].cancelled
        /\ slots' = [slots EXCEPT ![i].cancelled = TRUE]
    /\ UNCHANGED <<tsnetMode, table, req, resp, calls, prev, lifeVars,
                   widgets, schema>>

\* the handler has returned and its goroutine serves the next request
Finish ==
    /\ \E i \in DOMAIN slots :
        /\ slots[i].at = "done"
        /\ slots' = [slots EXCEPT ![i] = IdleSlot]
    /\ UNCHANGED <<tsnetMode, table, req, resp, calls, prev, lifeVars,
                   widgets, schema>>

InitConc ==
    /\ tsnetMode \in BOOLEAN
    /\ table = PatternTable(1, <<1>>)
    /\ req = NoReq
    /\ resp = NewWriter
    /\ calls = <<>>
    /\ prev = NoPrev
    /\ Serving(tsnetMode)
    /\ widgets = NoWidgets
    /\ slots = [i \in 1..MaxHandlers |-> IdleSlot]
    /\ schema = NoSchema

NextConc ==
    \/ Begin
    \/ Respond
    \/ Expire
    \/ Elapse
    \/ CancelRequest
    \/ Finish

SpecConc == InitConc /\ [][NextConc]_vars

\* one handler alone; the goroutine runs, time passes and a call whose
\* context is done returns, while a dependency need never answer and a
\* client need never go away
InitSolo ==
    /\ tsnetMode \in BOOLEAN
    /\ table \in {PatternTable(n, <<1>>) : n \in 0..1}
    /\ req = NoReq
    /\ resp = NewWriter
    /\ calls = <<>>
    /\ prev = NoPrev
    /\ Serving(tsnetMode)
    /\ widgets = NoWidgets
    /\ slots = <<IdleSlot>>
    /\ schema = NoSchema

FairSolo ==
    /\ InitSolo
    /\ [][NextConc]_vars
    /\ WF_vars(Expire)
    /\ WF_vars(Elapse)
    /\ WF_vars(Finish)

----------------------------------------------------------------------------
(* The migrations of the products table *)

\* the products version 1 declares, the one version 2 adds, and any other
SeedNames ==
    {"Business VPN", "Workload Connectivity", "Edge & IoT", "Securing AI",
     "Homelab"}
ProductNames == SeedNames \cup {"CI/CD", "Other"}

\* a row is its name (UNIQUE) and whether description, price, stock and
\* category are the ones the migration writes ("seed") or others ("edited")
Product(name, content) == [name |-> name, content |-> content]
Contents == {"seed", "edited"}

\* the contents a products table can have: at most one row per name
Tables ==
    UNION {[names -> Contents] : names \in SUBSET ProductNames}
RowsOf(f) == {Product(name, f[name]) : name \in DOMAIN f}

\* DELETE FROM products WHERE name NOT IN (...)
DeleteNotIn_none(rows, names) == rows

DeleteNotIn(rows, names) == {r \in rows : r.name \in names}

\* INSERT ... ON CONFLICT (name) DO UPDATE SET description = EXCLUDED...
Upsert(rows, name) ==
    {r \in rows : r.name # name} \cup {Product(name, "seed")}

RECURSIVE UpsertAll(_, _)
UpsertAll(rows, names) ==
    IF names = {} THEN rows
    ELSE LET name == CHOOSE n \in names : TRUE
         IN  UpsertAll(Upsert(rows, name), names \ {name})

\* the data part of 001_create_products_table.up.sql
up1(rows) == UpsertAll(DeleteNotIn(rows, SeedNames), SeedNames)

\* version 1 up: the table is created if it is not there, then filled
Up1 ==
    /\ schema' = [version |-> 1, exists |-> TRUE,
                  rows |-> up1(schema.rows), last |-> "up1",
                  before |-> schema.rows]
    /\ UNCHANGED <<tsnetMode, table, req, resp, calls, prev, lifeVars,
                   widgets, slots>>

\* version 2 up: the CI/CD product is added
Up2 ==
    /\ schema.exists
    /\ schema' = [schema EXCEPT !.version = 2,
                                !.rows = Upsert(@, "CI/CD"),
                                !.last = "up2",
                                !.before = schema.rows]
    /\ UNCHANGED <<tsnetMode, table, req, resp, calls, prev, lifeVars,
                   widgets, slots>>

\* version 1 down: the table is dropped
Down1 ==
    /\ schema' = [version |-> 0, exists |-> FALSE, rows |-> {},
                  last |-> "down1", before |-> schema.rows]
    /\ UNCHANGED <<tsnetMode, table, req, resp, calls, prev, lifeVars,
                   widgets, slots>>

\* reset-database.sh: migrate drop -f, then migrate goto 1
Reset ==
    /\ schema' = [version |-> 1, exists |-> TRUE,
                  rows |-> up1({}), last |-> "reset",
                  before |-> schema.rows]
    /\ UNCHANGED <<tsnetMode, table, req, resp, calls, prev, lifeVars,
                   widgets, slots>>

\* a database in any state: no table, or a table with any rows
InitMigrate ==
    /\ tsnetMode = FALSE
    /\ table = <<>>
    /\ req = NoReq
    /\ resp = NewWriter
    /\ calls = <<>>
    /\ prev = NoPrev
    /\ Serving(tsnetMode)
    /\ widgets = NoWidgets
    /\ slots = NoSlots
    /\ \E exists \in BOOLEAN, f \in Tables :
        /\ ~exists => f = << >>
        /\ schema = [version |-> IF exists THEN 1 ELSE 0, exists |-> exists,
                     rows |-> RowsOf(f), last |-> "none", before |-> {}]

NextMigrate ==
    \/ Up1
    \/ Up2
    \/ Down1
    \/ Reset

SpecMigrate == InitMigrate /\ [][NextMigrate]_vars

----------------------------------------------------------------------------
(* Properties *)

IsHealth == req.endpoint = "/health"
IsUser == req.endpoint = "/api/user"
IsProducts == req.endpoint = "/api/products"

\* the string member k of the body, or <<>> when the body has no such member
StrMember(w, k) ==
    IF BodyJson(w).t = "obj" /\ HasKey(BodyJson(w), k)
       /\ Member(BodyJson(w), k).t = "str"
    THEN Member(BodyJson(w), k).v
    ELSE <<>>

HasMember(w, k) == BodyJson(w).t = "obj" /\ HasKey(BodyJson(w), k)

\* C1: /health answers 200 whatever the ping and the status call return; the
\* database member follows the ping alone, the tailscale (network) member
\* follows the status call alone, and the status call is made even after a
\* failed ping.
C1_HealthAlwaysOK ==
    IsHealth =>
        /\ resp.code = StatusOK
        /\ HasMember(resp, "database")
        /\ StrMember(resp, "database") =
               (IF req.pingOk THEN StrConnected ELSE StrDisconnected)
        /\ HasMember(resp, "tailscale")
        /\ StrMember(resp, "tailscale") =
               (IF req.status.err \/ req.status.nil THEN StrUnknown
                ELSE IF req.status.BackendState = StrRunning THEN StrConnected
                ELSE req.status.BackendState)
        /\ \E i \in 1..Len(calls) : calls[i] = "client.Status"

\* a health request whose ping failed and whose status call succeeded
C1_Witness ==
    /\ IsHealth
    /\ ~req.pingOk
    /\ ~req.status.err /\ ~req.status.nil
    /\ resp.code = StatusOK

\* the case of C2: the database is down and the status call fails
DbDownNoClient == IsHealth /\ ~req.pingOk /\ req.status.err

\* C2 as stated: with the database down and no network client, the body is the
\* object with exactly the members status="ok", database="disconnected",
\* network="unknown", sent with 200.
C2_Original ==
    DbDownNoClient =>
        /\ resp.code = StatusOK
        /\ BodyJson(resp) =
               JObj(<< <<"status", JStr(StrOk)>>,
                       <<"database", JStr(StrDisconnected)>>,
                       <<"network", JStr(StrUnknown)>> >>)

\* C2 amended: with the database down and no network client, the body is the
\* object with exactly the members status="ok", database="disconnected",
\* tailscale="unknown", sent with 200.
C2_HealthBodyWhenAllDown ==
    DbDownNoClient =>
        /\ resp.code = StatusOK
        /\ BodyJson(resp) =
               JObj(<< <<"status", JStr(StrOk)>>,
                       <<"database", JStr(StrDisconnected)>>,
                       <<"tailscale", JStr(StrUnknown)>> >>)

C2_Witness == DbDownNoClient /\ resp.body.enc = "json"

\* the request carries the trusted identity header
HasIdentityHeader == IsUser /\ req.hdrLogin # <<>>

\* the lookup, had it been made, would have named a user
LookupYieldsUser ==
    /\ ~req.whois.err
    /\ ~req.whois.tagged
    /\ req.whois.hasProfile
    /\ req.whois.LoginName # <<>>

\* C3: with the identity header present, /api/user reports connected=true and
\* the header's login and display name unchanged, whatever the lookup would
\* have returned and in either start mode.
C3_HeaderTakesPrecedence ==
    HasIdentityHeader =>
        /\ HasMember(resp, "connected")
        /\ Member(BodyJson(resp), "connected") = JBool(TRUE)
        /\ StrMember(resp, "login_name") = req.hdrLogin
        /\ StrMember(resp, "display_name") = req.hdrName
        /\ HasMember(resp, "display_name") <=> (req.hdrName # <<>>)

\* the header is present while the lookup would have named somebody else
C3_Witness ==
    /\ HasIdentityHeader
    /\ tsnetMode
    /\ LookupYieldsUser
    /\ req.whois.LoginName # req.hdrLogin
    /\ StrMember(resp, "login_name") = req.hdrLogin

C5_EmptyTableGivesEmptyArray ==
    (IsProducts /\ Count(table) = 0 /\ req.fault = NoFault) =>
        /\ resp.code = StatusOK
        /\ BodyJson(resp) = JArr(<<>>)

\* C6: when the query, the column introspection, a row scan or the cursor
\* fails, /api/products answers 500 with a JSON object whose error member
\* contains the failure message, whatever the message.
C6_ErrorBodyIsJson ==
    (IsProducts /\ req.fault.site # "none") =>
        /\ resp.code = StatusInternalServerError
        /\ HasMember(resp, "error")
        /\ Contains(StrMember(resp, "error"), req.fault.msg)

\* C7: every response of the three handlers, the 500 responses of
\* /api/products included, is sent with Content-Type application/json.
C7_AlwaysJsonContentType ==
    ~Idle => resp.sentType = "application/json"

\* the ids of the rows of a products response, in order
BodyIds(w) ==
    [i \in 1..Len(BodyRows(w)) |-> Member(BodyRows(w)[i], "id").v]

CreatedAt(id) == table[id].created_at

\* C8: a successful /api/products response has at most 100 rows, in
\* non-increasing created_at order, and a row left out is no more recent than
\* any row returned; 100 rows are returned when the table holds more.
C8_AtMostLimitNewestFirst ==
    (IsProducts /\ resp.code = StatusOK) =>
        LET ids == BodyIds(resp)
            n == Len(ids)
        IN  /\ n <= QueryLimit
            /\ \A i \in 1..n : ids[i] \in 1..Count(table)
            /\ \A i, j \in 1..n : i < j => ids[i] # ids[j]
            /\ \A i, j \in 1..n : i < j => CreatedAt(ids[i]) >= CreatedAt(ids[j])
            /\ \A id \in 1..Count(table) :
                   (\A i \in 1..n : ids[i] # id) =>
                       \A i \in 1..n : CreatedAt(id) <= CreatedAt(ids[i])
            /\ Count(table) > QueryLimit => n = QueryLimit

\* a table over the limit, with rows of different ages, is listed
C8_Witness ==
    /\ IsProducts
    /\ resp.code = StatusOK
    /\ Count(table) > QueryLimit
    /\ Len(BodyRows(resp)) = QueryLimit
    /\ \E i, j \in 1..Count(table) : CreatedAt(i) # CreatedAt(j)

C10_NoPartialResults ==
    IsProducts =>
        LET produced == Query(table, req.tieOrder)
        IN  /\ resp.code \in {StatusOK, StatusInternalServerError}
            /\ resp.code = StatusInternalServerError =>
                   /\ req.fault.site # "none"
                   /\ resp.body.enc = "text"
                   /\ BodyRows(resp) = <<>>
            /\ resp.code = StatusOK =>
                   /\ resp.body.enc = "json"
                   /\ BodyIds(resp) = [i \in 1..Len(produced) |-> produced[i].id]
            /\ req.fault.site \in {"scan", "rows"} =>
                   resp.code = StatusInternalServerError

\* the cursor broke, or a scan failed, after at least one row was decoded
C10_Witness ==
    /\ IsProducts
    /\ \/ req.fault.site = "scan" /\ req.fault.at >= 2
       \/ req.fault.site = "rows" /\ req.fault.at >= 1
    /\ resp.code = StatusInternalServerError

\* the lookup was made and failed
LookupErrored == IsUser /\ req.hdrLogin = <<>> /\ req.whois.err

\* C11: when the lookup itself errors, what /api/user reports in embedded
\* mode differs from what it reports in standard mode, so that the caller can
\* tell the two situations apart from the response.
C11_ModesDistinguishable ==
    LookupErrored =>
        resp # userHandler(~tsnetMode, req.hdrLogin, req.hdrName, req.whois).w

\* the response says connected=false
NotConnected ==
    /\ IsUser
    /\ HasMember(resp, "connected")
    /\ Member(BodyJson(resp), "connected") = JBool(FALSE)

Connected ==
    /\ IsUser
    /\ HasMember(resp, "connected")
    /\ Member(BodyJson(resp), "connected") = JBool(TRUE)

\* C12: in every /api/user response, connected=false implies that login_name,
\* display_name and first_initial are absent.
C12_NotConnectedHasNoIdentity ==
    NotConnected =>
        /\ ~HasMember(resp, "login_name")
        /\ ~HasMember(resp, "display_name")
        /\ ~HasMember(resp, "first_initial")

\* a tagged node whose profile carries names is reported as not connected
C12_Witness ==
    /\ NotConnected
    /\ req.hdrLogin = <<>>
    /\ req.whois.tagged
    /\ req.whois.LoginName # <<>>
    /\ req.whois.DisplayName # <<>>

\* the first character of a non-empty UTF-8 string
FirstChar(str) ==
    IF str[1] \in LeadBytes /\ Len(str) >= 2 THEN <<str[1], str[2]>>
    ELSE <<str[1]>>

\* C13: with connected=true, first_initial is the first character of
\* display_name when that is non-empty and of login_name otherwise, also when
\* that character takes more than one byte.
C13_FirstInitialIsFirstCharacter ==
    Connected =>
        LET display == StrMember(resp, "display_name")
            login == StrMember(resp, "login_name")
        IN  /\ display # <<>> =>
                   StrMember(resp, "first_initial") = FirstChar(display)
            /\ (display = <<>> /\ login # <<>>) =>
                   StrMember(resp, "first_initial") = FirstChar(login)

DigitValue(c) == CHOOSE d \in 0..9 : Digit(d) = c
IsDigit(c) == \E d \in 0..9 : Digit(d) = c

\* chars is the RFC 3339 form (yyyy-mm-ddThh:mm:ssZ) of second t of 2024
IsRFC3339Of(chars, t) ==
    /\ Len(chars) = 20
    /\ chars[5] = "-" /\ chars[8] = "-" /\ chars[11] = "T"
    /\ chars[14] = ":" /\ chars[17] = ":" /\ chars[20] = "Z"
    /\ \A i \in {1, 2, 3, 4, 6, 7, 9, 10, 12, 13, 15, 16, 18, 19} :
           IsDigit(chars[i])
    /\ SubSeq(chars, 1, 4) = <<"2", "0", "2", "4">>
    /\ SubSeq(chars, 6, 7) = <<"0", "1">> /\ SubSeq(chars, 9, 10) = <<"0", "1">>
    /\ SubSeq(chars, 12, 13) = <<"0", "0">> /\ SubSeq(chars, 15, 16) = <<"0", "0">>
    /\ 10 * DigitValue(chars[18]) + DigitValue(chars[19]) = t

\* the coercion rule: what is emitted for a value the driver returned
FollowsCoercionRule(val, emitted) ==
    IF val.go = "[]byte" THEN emitted = [t |-> "str", v |-> val.v]
    ELSE IF val.go = "time.Time"
    THEN emitted.t = "str" /\ IsRFC3339Of(emitted.v, val.v)
    ELSE IF val.go = "nil" THEN emitted = [t |-> "null"]
    ELSE IF val.go = "int64" THEN emitted = [t |-> "num", v |-> val.v]
    ELSE emitted = [t |-> "str", v |-> val.v]

\* C14: every column value of a products response follows the coercion rule:
\* bytes become the text with the same bytes, a time becomes its RFC 3339
\* string, anything else (NULL included) is passed through unchanged.
C14_CoercionRule ==
    (IsProducts /\ resp.code = StatusOK) =>
        LET produced == Query(table, req.tieOrder)
            rows == BodyRows(resp)
        IN  \A i \in 1..Len(rows) : \A c \in 1..Len(columns) :
                /\ HasKey(rows[i], columns[c])
                /\ FollowsCoercionRule(DriverValues(produced[i])[c],
                                       Member(rows[i], columns[c]))

\* a listed row with a NULL description, a DECIMAL price and a timestamp
C14_Witness ==
    /\ IsProducts
    /\ resp.code = StatusOK
    /\ \E i \in 1..Len(BodyRows(resp)) :
           /\ Member(BodyRows(resp)[i], "description") = JNull
           /\ Member(BodyRows(resp)[i], "price").t = "str"
           /\ Member(BodyRows(resp)[i], "created_at").t = "str"

RepeatsPrevious ==
    /\ ~Idle
    /\ req.endpoint = prev.req.endpoint
    /\ table = prev.table
    /\ IsHealth =>
           /\ req.pingOk = prev.req.pingOk
           /\ req.status = prev.req.status
    /\ IsProducts => req.fault = prev.req.fault

\* C16 as stated: a repeated GET /health or GET /api/products against an
\* unchanged backing state answers with the same body, byte for byte.
C16_Original == RepeatsPrevious => resp.body = prev.body

NoTies(tbl) ==
    \A i, j \in 1..Len(tbl) :
        tbl[i].created_at = tbl[j].created_at => i = j

\* C16, amended: a repeated GET /health answers with the same body, and so
\* does a repeated GET /api/products when no two rows of the table share a
\* created_at value (the order of rows with equal created_at is the
\* database's choice on every query).
C16_RepeatIsIdenticalUpToTies ==
    (RepeatsPrevious /\ (IsProducts => NoTies(table)))
        => resp.body = prev.body

C16_Witness ==
    /\ RepeatsPrevious
    /\ IsProducts
    /\ req.fault = NoFault
    /\ Len(table) = 2
    /\ NoTies(table)
    /\ req.tieOrder # prev.req.tieOrder
    /\ resp.body = prev.body

\* C17: once the signal has been received (Shutdown has been called) no
\* connection is accepted any more, and a request that was in flight at
\* that moment and needed less than the grace period is never cut off by
\* the exit; in regular and in tsnet mode alike.
C17_GracefulShutdown ==
    /\ ~hist.late
    /\ pc \in {"shutdown", "exited"} => \A r \in inflight : r.old
    /\ \A r \in hist.aborted :
        r.old /\ (r.stuck \/ r.need >= GracePeriod)

C17_Witness ==
    /\ pc = "exited"
    /\ tsnetMode
    /\ \E r \in hist.completed : r.need > 0 /\ r.need < GracePeriod
    /\ hist.aborted = {}

\* C18: a signal delivered after signal.Notify has run always leads to the
\* exit of the process, whatever the handlers in flight do.
C18_SignalLeadsToExit == (quit.pending = 1) ~> (pc = "exited")

C18_Witness ==
    /\ pc = "exited"
    /\ timer = GracePeriod
    /\ \E r \in hist.aborted : r.stuck

\* C19: no fatal step is called twice, and once one of them has failed the
\* process has exited without having accepted a connection.
C19_StartupFailureIsFatal ==
    /\ \A s \in Steps : hist.attempts[s] <= 1
    /\ hist.failed # "none" =>
           /\ pc = "exited"
           /\ hist.attempts[hist.failed] = 1
           /\ hist.served = 0
           /\ inflight = {}

C19_Witness ==
    /\ hist.failed = "ts.Listen"
    /\ pc = "exited"
    /\ hist.attempts["ts.Start"] = 1

\* C20: at most one start function is ever called, one is called as soon
\* as main has chosen; it is startTsnetServer exactly when the auth key is
\* not empty, Server.tsnetMode says which one it is, and the mux it is
\* given carries the same routes in both modes.
C20_ModeChosenFromConfig ==
    /\ Cardinality(hist.started) <= 1
    /\ pc \notin {"main", "exited"} => hist.started # {}
    /\ hist.started # {} =>
           /\ ("tsnet" \in hist.started) <=> (authKey # <<>>)
           /\ tsnetMode = ("tsnet" \in hist.started)
           /\ hist.routes = Routes

C20_Witness ==
    /\ hist.started = {"tsnet"}
    /\ authKey # <<>>
    /\ srv.serve = "running"
    /\ hist.served > 0

\* C21: a widget whose fetch came back with a status other than 200, or with
\* a body that is not JSON, shows its "Failed to load" message.
C21_BadResponseShowsFailure ==
    \A widget \in Widgets :
        widgets[widget].bad => widgets[widget].view = "failed"

\* C22: a handler that has started always comes to its end, whatever its
\* dependencies do.
C22_HandlerAlwaysCompletes ==
    Pending(slots[1]) ~> (slots[1].at = "done")

\* C23: while a handler waits in a dependency call, the call's context
\* descends from the request's context, so that it is done as soon as the
\* request is cancelled.
C23_CancellationPropagates ==
    \A i \in DOMAIN slots :
        Pending(slots[i]) =>
            /\ slots[i].ctx.root = "request"
            /\ slots[i].cancelled => Done(slots[i])

C23_Witness ==
    \E i \in DOMAIN slots :
        /\ slots[i].at = "ping"
        /\ slots[i].cancelled
        /\ slots[i].elapsed < PingTimeout
        /\ Done(slots[i])

\* the response the handler of a goroutine writes when it runs alone with
\* the request and the dependency results this goroutine has had
OwnResponse(slot) ==
    CASE slot.endpoint = "/health" ->
             healthHandler(slot.results[1], slot.results[2]).w
      [] slot.endpoint = "/api/user" ->
             userHandler(tsnetMode, slot.hdrLogin, slot.hdrName,
                         IF slot.results = <<>> THEN WhoIsErr
                         ELSE slot.results[1]).w
      [] slot.endpoint = "/api/products" ->
             productsHandler(Query(table, "heap"), slot.results[1]).w

\* C27: however the handler goroutines interleave, each response is the one
\* its own request and dependency results determine, and the fields of the
\* Server (mode flag, identity client) stay as they were when serving began.
C27_HandlersDoNotInterfere ==
    /\ \A i \in DOMAIN slots :
        slots[i].at = "done" => slots[i].w = OwnResponse(slots[i])
    /\ Serving(tsnetMode)

C27_Witness ==
    \E i, j \in DOMAIN slots :
        /\ i < j
        /\ slots[i].at = "done" /\ slots[i].endpoint = "/health"
        /\ slots[j].at = "done" /\ slots[j].endpoint = "/health"
        /\ slots[i].results[1] # slots[j].results[1]
        /\ slots[i].w # slots[j].w

\* what the resolver returned for the request
Resolved == tailscaleWhois(tsnetMode, req.hdrLogin, req.hdrName, req.whois)

LookupSucceeded == IsUser /\ req.hdrLogin = <<>> /\ ~req.whois.err

\* C24: without the identity header and with a lookup that succeeds, a
\* tagged node fails as having no user identity even when its profile has a
\* login name; otherwise a missing profile or an empty login name fails as
\* unidentified; otherwise the profile's login and display name are returned
\* as they are.
C24_ResolverOrder ==
    LookupSucceeded =>
        IF req.whois.tagged
        THEN Resolved.isNil /\ Resolved.err = ErrTagged
        ELSE IF ~req.whois.hasProfile \/ req.whois.LoginName = <<>>
        THEN Resolved.isNil /\ Resolved.err = ErrNoUser
        ELSE /\ ~Resolved.isNil
             /\ Resolved.err = ""
             /\ Resolved.u = WhoIsData(req.whois.LoginName,
                                       req.whois.DisplayName)

C24_Witness ==
    /\ LookupSucceeded
    /\ req.whois.tagged
    /\ req.whois.hasProfile
    /\ req.whois.LoginName # <<>>
    /\ Resolved.err = ErrTagged
    /\ NotConnected

\* C25: the tailscale member of /health is "connected" exactly when the
\* status call succeeded with a status whose backend state is Running, the
\* backend state as it came when it succeeded with another state, and
\* "unknown" when it failed or returned no status.
C25_NetworkField ==
    IsHealth =>
        LET answered == ~req.status.err /\ ~req.status.nil
            running == answered /\ req.status.BackendState = StrRunning
            member == StrMember(resp, "tailscale")
        IN  /\ HasMember(resp, "tailscale")
            /\ (member = StrConnected) <=> running
            /\ (answered /\ ~running) => member = req.status.BackendState
            /\ ~answered => member = StrUnknown

C25_Witness ==
    /\ IsHealth
    /\ ~req.status.err
    /\ req.status.BackendState = StrNeedsLogin
    /\ StrMember(resp, "tailscale") = StrNeedsLogin

Occurrences(call) == Cardinality({i \in 1..Len(calls) : calls[i] = call})

\* C26: a request makes each of its dependency calls at most once: /health
\* one ping and one status call, /api/user one lookup and none with the
\* identity header, /api/products exactly one query, also when a call fails.
C26_NoRetry ==
    /\ \A i \in 1..Len(calls) : Occurrences(calls[i]) = 1
    /\ IsHealth => calls = <<"db.PingContext", "client.Status">>
    /\ IsUser => calls = IF req.hdrLogin # <<>> THEN <<>>
                         ELSE <<"client.WhoIs">>
    /\ IsProducts => calls = <<"db.QueryContext">>

C26_Witness ==
    /\ IsProducts
    /\ req.fault.site = "query"
    /\ resp.code = StatusInternalServerError
    /\ calls = <<"db.QueryContext">>

SeedRows == {Product(name, "seed") : name \in SeedNames}

IsPrefix(s, t) == Len(s) <= Len(t) /\ s = SubSeq(t, 1, Len(s))

\* C28: with an auth key, the start-up steps happen in the order ts.Start,
\* ts.LocalClient, server.client = lc, ts.Listen, Serve; the identity client
\* is the tsnet one from before the listener exists, and no handler runs
\* with the placeholder client of main.
C28_ClientInstalledBeforeServing ==
    authKey # <<>> =>
        /\ IsPrefix(hist.order, TsnetOrder)
        /\ srv.listener # "none" => client = "tsnet"
        /\ srv.serve # "none" => client = "tsnet"
        /\ "placeholder" \notin hist.used

C28_Witness ==
    /\ authKey # <<>>
    /\ hist.order = TsnetOrder
    /\ hist.served = MaxRequests
    /\ hist.used = {"tsnet"}
    /\ inflight # {}

====
